---- MODULE Spec2Model ----
(***************************************************************************)
(* Model of ci-chat-bot's main.go: the build-cluster kubeconfig scan        *)
(* (readBuildClusterKubeConfigs), the kubeconfig watch supervisor           *)
(* (setupKubeconfigWatches) and the startup sequence with the Bot retry     *)
(* loop (run).                                                              *)
(*                                                                          *)
(* Strings that the code inspects (file names) are sequences of             *)
(* one-character strings, so that the regular expression is computed and    *)
(* not assumed.                                                             *)
(***************************************************************************)
EXTENDS Integers, Sequences, FiniteSets, TLC

VARIABLES
    fs,         \* the directory opt.BuildClusterKubeconfigsLocation: file name -> entry
    dirOK,      \* whether ioutil.ReadDir(location) succeeds
    env,        \* inputs of run: BOT_TOKEN present, --config-resolver parses
    pc,         \* position of the foreground sequence in run()
    proc,       \* "running", or how the process ended
    exitErr,    \* the error run() returned (log.Fatal), or NoErr
    clusters,   \* buildClusterClientConfigs as returned by the scan
    watcher,    \* the fsnotify watcher: created, watched paths, event loop started
    watchErr,   \* the error setupKubeconfigWatches returned, or NoErr
    events,     \* watcher.Events: events delivered and not yet consumed
    changes,    \* number of changes made to the directory after the scan
    manager,    \* the Job Manager: constructed, started, and the map it was given
    bot,        \* whether NewBot was called
    botHist,    \* results of the calls of bot.Start so far
    pauses,     \* number of completed time.Sleep calls of the retry loop
    slept,      \* total seconds slept by the retry loop
    ignored,    \* number of events the event loop skipped
    mIn,        \* matcher check: the file name given to reBuildClusterName
    mOut        \* matcher check: the result of FindStringSubmatch, or NotApplied

vars == <<fs, dirOK, env, pc, proc, exitErr, clusters, watcher, watchErr,
          events, changes, manager, bot, botHist, pauses, slept, ignored, mIn,
          mOut>>

mainVars == <<fs, dirOK, env, pc, proc, exitErr, clusters, watcher, watchErr,
              events, changes, manager, bot, botHist, pauses, slept, ignored>>

----------------------------------------------------------------------------
(* Bounds *)

\* longest file name of the matcher check, in pieces
MaxPieces == 3
\* changes made to the directory while the process runs
MaxChanges == 2
\* calls of bot.Start that return
MaxStarts == 3

----------------------------------------------------------------------------
(* Strings *)

NL == "\n"

KC == <<"k", "u", "b", "e", "c", "o", "n", "f", "i", "g">>

DotKC == <<".">> \o KC

RECURSIVE Flatten(_)
Flatten(ss) == IF ss = <<>> THEN <<>> ELSE Head(ss) \o Flatten(Tail(ss))

Ord(c) ==
    CASE c = NL  -> 10
      [] c = "." -> 46
      [] c = "a" -> 97
      [] c = "b" -> 98
      [] c = "c" -> 99
      [] c = "e" -> 101
      [] c = "f" -> 102
      [] c = "g" -> 103
      [] c = "i" -> 105
      [] c = "k" -> 107
      [] c = "n" -> 110
      [] c = "o" -> 111
      [] c = "s" -> 115
      [] c = "t" -> 116
      [] c = "u" -> 117
      [] c = "x" -> 120

\* byte-wise string order, as sort.Slice uses in ioutil.ReadDir
RECURSIVE StrLess(_, _)
StrLess(s, t) ==
    IF t = <<>> THEN FALSE
    ELSE IF s = <<>> THEN TRUE
    ELSE IF Head(s) # Head(t) THEN Ord(Head(s)) < Ord(Head(t))
    ELSE StrLess(Tail(s), Tail(t))

HasSuffix(s, suf) ==
    /\ Len(s) >= Len(suf)
    /\ SubSeq(s, Len(s) - Len(suf) + 1, Len(s)) = suf

----------------------------------------------------------------------------
\* reBuildClusterName: a greedy group of any characters, then any one character,
\* then the letters kubeconfig; not anchored at either end

\* the dot of the regular expression: any character but a newline
DotMatches(c) == c # NL

\* the pattern matches s[i..e-1] as group 1, s[e] as the dot, then kubeconfig
MatchAt(s, i, e) ==
    /\ i <= e
    /\ e + Len(KC) <= Len(s)
    /\ \A j \in i..(e - 1) : DotMatches(s[j])
    /\ DotMatches(s[e])
    /\ SubSeq(s, e + 1, e + Len(KC)) = KC

NoMatch == [matched |-> FALSE, whole |-> <<>>, name |-> <<>>]

\* leftmost match, the group as long as possible (greedy)
FindStringSubmatch(s) ==
    LET starts == {i \in 1..Len(s) : \E e \in i..Len(s) : MatchAt(s, i, e)}
    IN  IF starts = {} THEN NoMatch
        ELSE LET i == CHOOSE x \in starts : \A y \in starts : x <= y
                 e == CHOOSE x \in i..Len(s) :
                          /\ MatchAt(s, i, x)
                          /\ \A y \in i..Len(s) : MatchAt(s, i, y) => y <= x
             IN  [matched |-> TRUE,
                  whole   |-> SubSeq(s, i, e + Len(KC)),
                  name    |-> SubSeq(s, i, e - 1)]

----------------------------------------------------------------------------
(* Matcher check: the regular expression applied to bounded file names *)

Pieces == {<<"a">>, <<".">>, <<"x">>, <<NL>>, KC}

PieceSeqs == UNION {[1..n -> Pieces] : n \in 1..MaxPieces}

MatcherInputs == {Flatten(ps) : ps \in PieceSeqs}

NotApplied == [matched |-> FALSE, whole |-> <<"?">>, name |-> <<"?">>]


----------------------------------------------------------------------------
(* The credential directory *)

\* opt.BuildClusterKubeconfigsLocation
Location == "/var/build-cluster-kubeconfigs"

NameA == <<"a">> \o DotKC

NameB == <<"b">> \o DotKC

NameNotes == <<"n", "o", "t", "e", "s", ".", "t", "x", "t">>

DirNames == {NameA, NameB, NameNotes}

\* a name without the dot before kubeconfig
NameAX == <<"a", "x">> \o KC

\* a directory whose names the pattern accepts, one of them without the dot
OddDirNames == {NameA, NameAX}

\* what a file's content makes the scan do: the steps that fail on it
Classes == {"good", "unreadable", "malformed", "nocontext",
            "badcore", "badimage", "badproject", "badclients"}

Fails(class) ==
    CASE class = "good"       -> {}
      [] class = "unreadable" -> {"read"}
      [] class = "malformed"  -> {"parse"}
      [] class = "nocontext"  -> {"resolve"}
      [] class = "badcore"    -> {"core"}
      [] class = "badimage"   -> {"image"}
      [] class = "badproject" -> {"project"}
      [] class = "badclients" -> {"core", "image", "project"}

\* a file's content: the one it had when the process started, or another
Original == "original"

Rewritten == "rewritten"

Absent == [kind |-> "absent", class |-> "good", ver |-> Original]

Directory == [kind |-> "dir", class |-> "good", ver |-> Original]

File(class, ver) == [kind |-> "file", class |-> class, ver |-> ver]

InitEntries == {Absent, Directory} \cup {File(c, Original) : c \in Classes}

\* an entry whose name does not end in kubeconfig: one content of each fate
OtherEntries == {Absent, Directory, File("good", Original),
                 File("malformed", Original)}

InitEntriesOf(name) == IF name = NameNotes THEN OtherEntries ELSE InitEntries

\* path.Join(location, file.Name())
PathJoin(location, name) == [dir |-> location, name |-> name]

\* os.Stat(path) succeeds
StatOK(fsv, p) ==
    /\ p.dir = Location
    /\ p.name \in DOMAIN fsv
    /\ fsv[p.name].kind # "absent"

----------------------------------------------------------------------------
(* Errors *)

NoFile == <<>>

Err(kind, file, client) == [kind |-> kind, file |-> file, client |-> client]

NoErr == Err("none", NoFile, "none")

Exit(at, err) == [at |-> at, err |-> err]

NoExit == Exit("none", NoErr)

----------------------------------------------------------------------------
(* readBuildClusterKubeConfigs *)

EmptyMap == [n \in {} |-> Absent]

NilMap == [nil |-> TRUE, m |-> EmptyMap]

\* a scan that returns nil when it found no credential file
MakeMapNilIfEmpty(m) == [nil |-> DOMAIN m = {}, m |-> m]

\* return clusterMap, nil
MakeMap(m) == [nil |-> FALSE, m |-> m]

\* clusterMap[k] = v
MapPut(m, k, v) == [x \in DOMAIN m \cup {k} |-> IF x = k THEN v ELSE m[x]]

\* ioutil.ReadDir: the entries, sorted by file name
RECURSIVE SortedNames(_)
SortedNames(S) ==
    IF S = {} THEN <<>>
    ELSE LET least == CHOOSE x \in S : \A y \in S \ {x} : StrLess(x, y)
         IN  <<least>> \o SortedNames(S \ {least})

ReadDir(fsv) == SortedNames({n \in DOMAIN fsv : fsv[n].kind # "absent"})

\* a loop body that does not check the error of the project client
BuildBundleProjectUnchecked(location, name, entry) ==
    LET failing == Fails(entry.class)
    IN  IF "read" \in failing
            THEN [err |-> Err("read", name, "none"), bundle |-> Absent]
        ELSE IF "parse" \in failing
            THEN [err |-> Err("parse", NoFile, "none"), bundle |-> Absent]
        ELSE IF "resolve" \in failing
            THEN [err |-> Err("resolve", NoFile, "none"), bundle |-> Absent]
        ELSE IF "core" \in failing
            THEN [err |-> Err("client", NoFile, "core"), bundle |-> Absent]
        ELSE IF "image" \in failing
            THEN [err |-> Err("client", NoFile, "target image"), bundle |-> Absent]
        ELSE [err    |-> NoErr,
              bundle |-> [KubeconfigPath    |-> PathJoin(location, name),
                          CoreConfig        |-> [from |-> name, ver |-> entry.ver],
                          CoreClient        |-> "core",
                          ProjectClient     |-> IF "project" \in failing
                                                THEN "nil" ELSE "project",
                          TargetImageClient |-> "target image"]]

\* the body of the loop for one matched file: read, parse, resolve, three clients
BuildBundle(location, name, entry) ==
    LET failing == Fails(entry.class)
    IN  IF "read" \in failing
            THEN [err |-> Err("read", name, "none"), bundle |-> Absent]
        ELSE IF "parse" \in failing
            THEN [err |-> Err("parse", NoFile, "none"), bundle |-> Absent]
        ELSE IF "resolve" \in failing
            THEN [err |-> Err("resolve", NoFile, "none"), bundle |-> Absent]
        ELSE IF "core" \in failing
            THEN [err |-> Err("client", NoFile, "core"), bundle |-> Absent]
        ELSE IF "image" \in failing
            THEN [err |-> Err("client", NoFile, "target image"), bundle |-> Absent]
        ELSE IF "project" \in failing
            THEN [err |-> Err("client", NoFile, "project"), bundle |-> Absent]
        ELSE [err    |-> NoErr,
              bundle |-> [KubeconfigPath    |-> PathJoin(location, name),
                          CoreConfig        |-> [from |-> name, ver |-> entry.ver],
                          CoreClient        |-> "core",
                          ProjectClient     |-> "project",
                          TargetImageClient |-> "target image"]]

\* a scan that hands back what it had built so far together with the error
ScanFailurePartial(err, m) == [err |-> err, map |-> MakeMap(m)]

\* return nil, fmt.Errorf(...) inside the loop
ScanFailure(err, m) == [err |-> err, map |-> NilMap]

\* a scan without the directory test
IsDirNever(entry) == FALSE

\* file.IsDir()
IsDir(entry) == entry.kind = "dir"

RECURSIVE ScanFiles(_, _, _, _)
ScanFiles(location, files, fsv, m) ==
    IF files = <<>> THEN [err |-> NoErr, map |-> MakeMap(m)]
    ELSE LET name  == Head(files)
             entry == fsv[name]
             match == FindStringSubmatch(name)
         IN  IF IsDir(entry) THEN ScanFiles(location, Tail(files), fsv, m)
             ELSE IF ~match.matched THEN ScanFiles(location, Tail(files), fsv, m)
             ELSE LET b == BuildBundle(location, name, entry)
                  IN  IF b.err # NoErr THEN ScanFailure(b.err, m)
                      ELSE ScanFiles(location, Tail(files), fsv,
                                     MapPut(m, match.name, b.bundle))

readBuildClusterKubeConfigs(location, fsv, listable) ==
    IF ~listable THEN [err |-> Err("location", NoFile, "none"), map |-> NilMap]
    ELSE ScanFiles(location, ReadDir(fsv), fsv, EmptyMap)

----------------------------------------------------------------------------
(* setupKubeconfigWatches *)

\* fsnotify.Op is a bit mask; an event carries a non-empty set of operations
Chmod == {"Chmod"}

NoWatcher == [created |-> FALSE, watched |-> {}, loop |-> FALSE]

\* every bundle of the map is handed to watcher.Add, its file missing or not
WatchTargetsNoStat(cl, fsv) ==
    {cl.m[n].KubeconfigPath : n \in DOMAIN cl.m}

\* the paths handed to watcher.Add: the bundles whose os.Stat succeeds
WatchTargets(cl, fsv) ==
    {cl.m[n].KubeconfigPath :
        n \in {k \in DOMAIN cl.m : StatOK(fsv, cl.m[k].KubeconfigPath)}}

\* a setup that starts the event loop before it registers the files
SetupOutcomesLoopFirst(cl, fsv) ==
    LET targets == WatchTargets(cl, fsv)
        addable == {p \in targets : StatOK(fsv, p)}
    IN  {[err |-> Err("watcher", NoFile, "none"), watcher |-> NoWatcher]}
        \cup (IF targets = addable
              THEN {[err     |-> NoErr,
                     watcher |-> [created |-> TRUE, watched |-> targets,
                                  loop |-> TRUE]]}
              ELSE {})
        \cup {[err     |-> Err("watch", pd[1].name, "none"),
               watcher |-> [created |-> TRUE, watched |-> pd[2], loop |-> TRUE]] :
                 pd \in {x \in targets \X SUBSET addable : x[1] \notin x[2]}}

\* What one call can do.  fsnotify.NewWatcher may fail; watcher.Add may fail on
\* any path and does fail on a missing one; the map is ranged over in an
\* unspecified order, so the paths added before a failing one are any subset
\* of the others.  The event loop is started only when no Add failed.
SetupOutcomes(cl, fsv) ==
    LET targets == WatchTargets(cl, fsv)
        addable == {p \in targets : StatOK(fsv, p)}
    IN  {[err |-> Err("watcher", NoFile, "none"), watcher |-> NoWatcher]}
        \cup (IF targets = addable
              THEN {[err     |-> NoErr,
                     watcher |-> [created |-> TRUE, watched |-> targets,
                                  loop |-> TRUE]]}
              ELSE {})
        \cup {[err     |-> Err("watch", pd[1].name, "none"),
               watcher |-> [created |-> TRUE, watched |-> pd[2], loop |-> FALSE]] :
                 pd \in {x \in targets \X SUBSET addable : x[1] \notin x[2]}}

\* the bit test e.Op&fsnotify.Chmod != 0 in place of the comparison
IgnoredEventHasChmod(e) == "Chmod" \in e.op

\* if e.Op == fsnotify.Chmod { continue }
IgnoredEvent(e) == e.op = Chmod

----------------------------------------------------------------------------
(* run *)

Running == proc = "running"

\* return err: main calls log.Fatal
Fatal(at, err) ==
    /\ proc' = "fatal"
    /\ exitErr' = Exit(at, err)
    /\ pc' = "returned"

Goto(next) ==
    /\ pc' = next
    /\ UNCHANGED <<proc, exitErr>>

NoManager == [built |-> FALSE, started |-> FALSE, clusters |-> NilMap]

\* results of bot.Start: nil, an error isRetriable accepts, an error it rejects
BotResults == {[err |-> FALSE, retriable |-> FALSE],
               [err |-> TRUE,  retriable |-> TRUE],
               [err |-> TRUE,  retriable |-> FALSE]}

isRetriable(r) == r.retriable

\* the loop ended by any error, retriable or not
BotLoopReturnsOnAnyError(r) == r.err

\* err != nil && !isRetriable(err)
BotLoopReturns(r) == r.err /\ ~isRetriable(r)

\* time.Sleep(5 * time.Second)
SleepSeconds == 5

\* a scan error that is logged only
AfterScanLogOnly(err) == Goto("watch")

\* if err != nil { return fmt.Errorf("unable to load build cluster ...") }
AfterScan(err) == IF err # NoErr THEN Fatal("scan", err) ELSE Goto("watch")

\* lines 75-78
Scan ==
    /\ Running /\ pc = "scan"
    /\ LET r == readBuildClusterKubeConfigs(Location, fs, dirOK)
       IN  /\ clusters' = r.map
           /\ AfterScan(r.err)
    /\ UNCHANGED <<fs, dirOK, env, watcher, watchErr, events, changes, manager,
                   bot, botHist, pauses, slept, ignored, mIn, mOut>>

\* a watch setup error that is returned
AfterWatchesFatal(err) ==
    IF err # NoErr THEN Fatal("watch", err) ELSE Goto("resolver")

\* what run does with the result of setupKubeconfigWatches: it logs a warning
AfterWatches(err) == Goto("resolver")

\* lines 80-82
SetupWatches ==
    /\ Running /\ pc = "watch"
    /\ \E o \in SetupOutcomes(clusters, fs) :
          /\ watcher' = o.watcher
          /\ watchErr' = o.err
          /\ AfterWatches(o.err)
    /\ UNCHANGED <<fs, dirOK, env, clusters, events, changes, manager, bot,
                   botHist, pauses, slept, ignored, mIn, mOut>>

\* lines 84-88
ParseResolver ==
    /\ Running /\ pc = "resolver"
    /\ IF env.resolverOK THEN Goto("token")
       ELSE Fatal("resolver", Err("url", NoFile, "none"))
    /\ UNCHANGED <<fs, dirOK, env, clusters, watcher, watchErr, events, changes,
                   manager, bot, botHist, pauses, slept, ignored, mIn, mOut>>

\* a token check that lets the empty token through
TokenMissingNever(e) == FALSE

\* len(botToken) == 0
TokenMissing(e) == ~e.tokenSet

\* lines 90-93
CheckToken ==
    /\ Running /\ pc = "token"
    /\ IF TokenMissing(env) THEN Fatal("token", Err("token", NoFile, "none"))
       ELSE Goto("kubeconfig")
    /\ UNCHANGED <<fs, dirOK, env, clusters, watcher, watchErr, events, changes,
                   manager, bot, botHist, pauses, slept, ignored, mIn, mOut>>

\* lines 95-98
LoadKubeconfig ==
    /\ Running /\ pc = "kubeconfig"
    /\ \E ok \in BOOLEAN :
          IF ok THEN Goto("prow")
          ELSE Fatal("kubeconfig", Err("kubeconfig", NoFile, "none"))
    /\ UNCHANGED <<fs, dirOK, env, clusters, watcher, watchErr, events, changes,
                   manager, bot, botHist, pauses, slept, ignored, mIn, mOut>>

\* lines 99-103
ProwClient ==
    /\ Running /\ pc = "prow"
    /\ \E ok \in BOOLEAN :
          IF ok THEN Goto("release")
          ELSE Fatal("prow", Err("client", NoFile, "prow"))
    /\ UNCHANGED <<fs, dirOK, env, clusters, watcher, watchErr, events, changes,
                   manager, bot, botHist, pauses, slept, ignored, mIn, mOut>>

\* line 106: loadKubeconfigFromFlagOrDefault returns a config and nil, or an
\* error; run goes on to line 107 in both cases, with the error in err
ReleaseConfig ==
    /\ Running /\ pc = "release"
    /\ \E loaded \in BOOLEAN :
          IF loaded THEN Goto("image") ELSE Goto("imageLoadErr")
    /\ UNCHANGED <<fs, dirOK, env, clusters, watcher, watchErr, events, changes,
                   manager, bot, botHist, pauses, slept, ignored, mIn, mOut>>

\* lines 107-110.  The error of loadKubeconfigFromFlagOrDefault is overwritten
\* unread; what imageclientset.NewForConfig does with the config returned
\* beside that error is not this file's code: it may build a client, return
\* an error, or dereference nil.
ReleaseClient ==
    /\ Running /\ pc \in {"image", "imageLoadErr"}
    /\ \E outcome \in (IF pc = "image" THEN {"client", "error"}
                       ELSE {"client", "error", "panic"}) :
             CASE outcome = "client" -> Goto("agent")
               [] outcome = "error"  ->
                    Fatal("release", Err("client", NoFile, "image"))
               [] outcome = "panic"  ->
                    /\ proc' = "panic"
                    /\ pc' = "returned"
                    /\ UNCHANGED exitErr
    /\ UNCHANGED <<fs, dirOK, env, clusters, watcher, watchErr, events, changes,
                   manager, bot, botHist, pauses, slept, ignored, mIn, mOut>>

\* lines 112-115
ConfigAgent ==
    /\ Running /\ pc = "agent"
    /\ \E ok \in BOOLEAN :
          IF ok THEN Goto("manager")
          ELSE Fatal("agent", Err("agent", NoFile, "none"))
    /\ UNCHANGED <<fs, dirOK, env, clusters, watcher, watchErr, events, changes,
                   manager, bot, botHist, pauses, slept, ignored, mIn, mOut>>

\* a Job Manager built on a map of its own
JobManagerMapFresh(cl) == MakeMap(EmptyMap)

\* the map argument of NewJobManager: buildClusterClientConfigs
JobManagerMap(cl) == cl

\* lines 117-122: NewJobManager, manager.Start, NewBot
StartManager ==
    /\ Running /\ pc = "manager"
    /\ \E ok \in BOOLEAN :
          /\ manager' = [built |-> TRUE, started |-> ok,
                         clusters |-> JobManagerMap(clusters)]
          /\ IF ok THEN Goto("start") /\ bot' = TRUE
             ELSE Fatal("manager", Err("manager", NoFile, "none"))
                  /\ UNCHANGED bot
    /\ UNCHANGED <<fs, dirOK, env, clusters, watcher, watchErr, events, changes,
                   botHist, pauses, slept, ignored, mIn, mOut>>

\* the error value a call of bot.Start returned
BotErr(attempt, r) ==
    [kind |-> "bot", file |-> NoFile, client |-> "none", attempt |-> attempt,
     retriable |-> r.retriable]

\* a loop that pauses after an error only and restarts at once after nil
AfterBotStartPauseOnError(attempt, r) ==
    IF BotLoopReturns(r) THEN Fatal("bot", BotErr(attempt, r))
    ELSE IF r.err THEN Goto("sleep")
    ELSE Goto("start")

\* lines 124-126: return err, or fall through to the pause
AfterBotStart(attempt, r) ==
    IF BotLoopReturns(r) THEN Fatal("bot", BotErr(attempt, r)) ELSE Goto("sleep")

\* line 124: run calls bot.Start, which blocks while the Bot runs
BotStart ==
    /\ Running /\ pc = "start"
    /\ Goto("bot")
    /\ UNCHANGED <<fs, dirOK, env, clusters, watcher, watchErr, events, changes,
                   manager, bot, botHist, pauses, slept, ignored, mIn, mOut>>

\* lines 124-126: bot.Start returns; the Bot may as well run forever
BotReturn ==
    /\ Running /\ pc = "bot"
    /\ Len(botHist) < MaxStarts
    /\ \E r \in BotResults :
          /\ botHist' = Append(botHist, r)
          /\ AfterBotStart(Len(botHist) + 1, r)
    /\ UNCHANGED <<fs, dirOK, env, clusters, watcher, watchErr, events, changes,
                   manager, bot, pauses, slept, ignored, mIn, mOut>>

\* line 127
Sleep ==
    /\ Running /\ pc = "sleep"
    /\ pauses' = pauses + 1
    /\ slept' = slept + SleepSeconds
    /\ Goto("start")
    /\ UNCHANGED <<fs, dirOK, env, clusters, watcher, watchErr, events, changes,
                   manager, bot, botHist, ignored, mIn, mOut>>

\* an event loop that takes events only once startup is over
WatchLoopAfterStartup ==
    /\ Running /\ watcher.loop
    /\ pc \in {"start", "bot", "sleep"}
    /\ events # <<>>
    /\ events' = Tail(events)
    /\ IF IgnoredEvent(Head(events))
       THEN /\ ignored' = ignored + 1
            /\ UNCHANGED <<proc, exitErr, pc>>
       ELSE /\ proc' = "exit0"
            /\ UNCHANGED <<exitErr, pc, ignored>>
    /\ UNCHANGED <<fs, dirOK, env, clusters, watcher, watchErr, changes, manager,
                   bot, botHist, pauses, slept, mIn, mOut>>

\* lines 203-212: the goroutine takes one event from watcher.Events
WatchLoop ==
    /\ Running /\ watcher.loop
    /\ events # <<>>
    /\ events' = Tail(events)
    /\ IF IgnoredEvent(Head(events))
       THEN /\ ignored' = ignored + 1
            /\ UNCHANGED <<proc, exitErr, pc>>
       ELSE /\ proc' = "exit0"
            /\ UNCHANGED <<exitErr, pc, ignored>>
    /\ UNCHANGED <<fs, dirOK, env, clusters, watcher, watchErr, changes, manager,
                   bot, botHist, pauses, slept, mIn, mOut>>

----------------------------------------------------------------------------
(* The environment: the directory changes while the process runs *)

FsOps == {"Write", "Chmod", "WriteChmod", "Remove", "Rename"}

\* the fsnotify.Op of the event a change raises on a watched file
EventOp(op) ==
    CASE op = "Write"      -> {"Write"}
      [] op = "Chmod"      -> {"Chmod"}
      [] op = "WriteChmod" -> {"Write", "Chmod"}
      [] op = "Remove"     -> {"Remove"}
      [] op = "Rename"     -> {"Rename"}

ChangeEnabled(entry, op) ==
    CASE op \in {"Write", "WriteChmod"}       -> entry.kind = "file"
      [] op \in {"Chmod", "Remove", "Rename"} -> entry.kind # "absent"

\* the entry after the change; a written file holds content other than the
\* content it had when the process started
ChangeEffect(entry, op) ==
    CASE op \in {"Write", "WriteChmod"} -> File(entry.class, Rewritten)
      [] op = "Chmod"                   -> entry
      [] op \in {"Remove", "Rename"}    -> Absent

\* A watch is on the file the path named when watcher.Add was called: an event
\* is raised only for a watched path, and the watch ends with the file.
FileChange ==
    /\ Running /\ pc \notin {"scan", "returned"}
    /\ changes < MaxChanges
    /\ \E n \in DOMAIN fs, op \in FsOps :
          LET p == PathJoin(Location, n)
          IN  /\ ChangeEnabled(fs[n], op)
              /\ fs' = [fs EXCEPT ![n] = ChangeEffect(fs[n], op)]
              /\ events' = IF p \in watcher.watched
                           THEN Append(events, [path |-> p, op |-> EventOp(op)])
                           ELSE events
              /\ watcher' = IF op \in {"Remove", "Rename"}
                            THEN [watcher EXCEPT !.watched = @ \ {p}]
                            ELSE watcher
    /\ changes' = changes + 1
    /\ UNCHANGED <<dirOK, env, pc, proc, exitErr, clusters, watchErr, manager,
                   bot, botHist, pauses, slept, ignored, mIn, mOut>>

----------------------------------------------------------------------------
(* Specifications *)

ProcessStart ==
    /\ pc = "scan"
    /\ proc = "running"
    /\ exitErr = NoExit
    /\ clusters = NilMap
    /\ watcher = NoWatcher
    /\ watchErr = NoErr
    /\ events = <<>>
    /\ changes = 0
    /\ manager = NoManager
    /\ bot = FALSE
    /\ botHist = <<>>
    /\ pauses = 0
    /\ slept = 0
    /\ ignored = 0

Init ==
    /\ dirOK \in BOOLEAN
    /\ fs \in [DirNames -> InitEntries]
    /\ \A n \in DirNames : fs[n] \in InitEntriesOf(n)
    /\ dirOK \/ \A n \in DirNames : fs[n] = Absent
    /\ env \in [tokenSet : BOOLEAN, resolverOK : BOOLEAN]
    /\ ProcessStart
    /\ mIn = <<>>
    /\ mOut = NotApplied

Foreground ==
    \/ Scan
    \/ SetupWatches
    \/ ParseResolver
    \/ CheckToken
    \/ LoadKubeconfig
    \/ ProwClient
    \/ ReleaseConfig
    \/ ReleaseClient
    \/ ConfigAgent
    \/ StartManager
    \/ BotStart
    \/ Sleep

Next ==
    \/ Scan
    \/ SetupWatches
    \/ ParseResolver
    \/ CheckToken
    \/ LoadKubeconfig
    \/ ProwClient
    \/ ReleaseConfig
    \/ ReleaseClient
    \/ ConfigAgent
    \/ StartManager
    \/ BotStart
    \/ BotReturn
    \/ Sleep
    \/ WatchLoop
    \/ FileChange

Spec == Init /\ [][Next]_vars

\* a directory that holds at most the entry a.kubeconfig
LiveInit ==
    /\ Init
    /\ dirOK
    /\ fs[NameB] = Absent
    /\ fs[NameNotes] = Absent

\* goroutines are scheduled fairly: the foreground sequence and the event loop
\* each take their next step when they have one; nothing makes bot.Start return
LiveSpec ==
    LiveInit /\ [][Next]_vars /\ WF_vars(Foreground) /\ WF_vars(WatchLoop)

\* the process started on a directory of OddDirNames
OddNamesInit ==
    /\ dirOK = TRUE
    /\ fs \in [OddDirNames -> InitEntries]
    /\ env \in [tokenSet : BOOLEAN, resolverOK : BOOLEAN]
    /\ ProcessStart
    /\ mIn = <<>>
    /\ mOut = NotApplied

OddNamesSpec == OddNamesInit /\ [][Next]_vars

\* the matcher applied to one bounded file name
MatcherInit ==
    /\ mIn \in MatcherInputs
    /\ mOut = NotApplied
    /\ dirOK = TRUE
    /\ fs = [n \in DirNames |-> Absent]
    /\ env = [tokenSet |-> TRUE, resolverOK |-> TRUE]
    /\ ProcessStart

ApplyMatcher ==
    /\ mOut = NotApplied
    /\ mOut' = FindStringSubmatch(mIn)
    /\ UNCHANGED <<mIn, fs, dirOK, env, pc, proc, exitErr, clusters, watcher,
                   watchErr, events, changes, manager, bot, botHist, pauses,
                   slept, ignored>>

MatcherNext == ApplyMatcher

MatcherSpec == MatcherInit /\ [][MatcherNext]_vars

----------------------------------------------------------------------------
(* Properties *)

PathA == PathJoin(Location, NameA)

PathB == PathJoin(Location, NameB)

ClusterA == <<"a">>

ClusterB == <<"b">>

ReturnedNil == [err |-> FALSE, retriable |-> FALSE]

Retriable == [err |-> TRUE, retriable |-> TRUE]

NonRetriable == [err |-> TRUE, retriable |-> FALSE]

\* a file the scan reads (not a directory, name accepted by the matcher)
\* whose reading, parsing, resolving or client construction fails
BadMatchedFile(n) ==
    /\ fs[n].kind = "file"
    /\ FindStringSubmatch(n).matched
    /\ fs[n].class # "good"

\* the directory is as the scan found it
AsScanned == pc # "scan" /\ changes = 0

\* C1: the scan is fail-fast and atomic.  Whenever the directory cannot be
\* listed or some matched file fails at any step, the scan returns an error
\* and the nil map, never the entries built before the failure; and a scan
\* that returned an error never returned a map.
C1_ScanFailFastAtomic ==
    /\ AsScanned /\ (~dirOK \/ \E n \in DirNames : BadMatchedFile(n))
          => /\ clusters = NilMap
             /\ proc = "fatal"
             /\ exitErr.at = "scan"
             /\ exitErr.err # NoErr
    /\ exitErr.at = "scan" => clusters = NilMap

\* C1 witness: a.kubeconfig is valid, b.kubeconfig is malformed, and the
\* scan has failed as a whole
C1_Witness ==
    /\ AsScanned
    /\ fs[NameA] = File("good", Original)
    /\ fs[NameB] = File("malformed", Original)
    /\ clusters = NilMap
    /\ exitErr.at = "scan"

\* C2: the matcher accepts a file name exactly when it ends in the literal
\* suffix .kubeconfig with a non-empty prefix before it, and the extracted
\* cluster name is that prefix.
C2_MatcherIsSuffixTest ==
    mOut # NotApplied =>
        LET wanted == HasSuffix(mIn, DotKC) /\ Len(mIn) > Len(DotKC)
        IN  /\ mOut.matched <=> wanted
            /\ mOut.matched => mOut.name = SubSeq(mIn, 1, Len(mIn) - Len(DotKC))

\* C3: whenever the event loop takes an event, an event that is only a chmod
\* leaves the process running with the loop still watching, and an event of
\* any other kind ends the process with exit status 0.
C3_ChmodIgnoredOthersExit ==
    [][Len(events') < Len(events) =>
          IF Head(events).op = {"Chmod"}
          THEN /\ proc' = "running"
               /\ watcher'.loop
               /\ watcher'.watched = watcher.watched
          ELSE proc' = "exit0"]_vars

\* C3 witness: the loop skipped a chmod event, kept watching, and a later
\* event of another kind ended the process
C3_Witness ==
    /\ ignored >= 1
    /\ proc = "exit0"

\* some bundle of the cluster map was built from content its file no longer has
StaleBundle ==
    \E k \in DOMAIN clusters.m :
        LET e == fs[clusters.m[k].KubeconfigPath.name]
        IN  e.kind = "file" /\ e.ver # clusters.m[k].CoreConfig.ver

\* C4: the process never keeps running on stale credentials: once the content
\* of a bundle's file differs from what the scan read, the process
\* eventually terminates.
C4_StaleLeadsToExit ==
    (proc = "running" /\ StaleBundle) ~> (proc # "running")

NothingStarted ==
    /\ watcher = NoWatcher
    /\ watchErr = NoErr
    /\ events = <<>>
    /\ manager = NoManager
    /\ bot = FALSE
    /\ botHist = <<>>
    /\ pauses = 0

\* C5: when the scan returned an error (the nil map), run has returned that
\* error and nothing was started: no watch, no event loop, no Job Manager,
\* no Bot.
C5_ScanErrorStartsNothing ==
    (pc # "scan" /\ clusters.nil) =>
        /\ proc = "fatal"
        /\ pc = "returned"
        /\ exitErr.at = "scan"
        /\ exitErr.err.kind \in {"location", "read", "parse", "resolve", "client"}
        /\ NothingStarted

\* C5 witness: the directory could not be listed and run has returned
C5_Witness ==
    /\ ~dirOK
    /\ pc = "returned"
    /\ exitErr = Exit("scan", Err("location", NoFile, "none"))

\* C6 as stated: with the bot token absent, the process exits with the
\* missing-token error before the directory is scanned and before any watch
\* is registered, whatever the state of the directory.
C6_TokenCheckedFirst ==
    ~env.tokenSet =>
        /\ pc \in {"scan", "returned"}
        /\ clusters = NilMap
        /\ watcher = NoWatcher
        /\ proc = "fatal" => exitErr.at = "token"

\* C6 amended: the token check follows the scan, the watch setup and the
\* resolver URL parse.  With the token absent the foreground sequence never
\* gets past the token check, and no Job Manager or Bot is built; the
\* process exits with the missing-token error only after a successful scan,
\* an attempted watch setup and a successful URL parse, and with the scan or
\* URL error when one of those fails first.
C6_TokenCheckedAfterWatches ==
    /\ ~env.tokenSet =>
          /\ pc \in {"scan", "watch", "resolver", "token", "returned"}
          /\ manager = NoManager /\ bot = FALSE /\ botHist = <<>>
          /\ proc = "fatal" => exitErr.at \in {"scan", "resolver", "token"}
          /\ (pc = "returned" /\ dirOK /\ env.resolverOK
                /\ \A n \in DirNames : ~BadMatchedFile(n))
                => exitErr.at = "token"
    /\ exitErr.at = "token" =>
          /\ ~env.tokenSet
          /\ ~clusters.nil
          /\ env.resolverOK
          /\ watcher.created \/ watchErr # NoErr

\* C6 witness: the process exited for the missing token with a watch
\* registered on a.kubeconfig
C6_Witness ==
    /\ exitErr.at = "token"
    /\ proc = "fatal"
    /\ PathA \in watcher.watched

\* C7: a failed watch setup is not fatal: the setup step always hands over to
\* the next step of run with the process running, run never returns the
\* setup's error, and the steps after it are taken as after a successful
\* setup.
C7_WatchSetupFailureNotFatal ==
    [][/\ (pc = "watch" /\ pc' # "watch")
            => (pc' = "resolver" /\ proc' = "running" /\ exitErr' = NoExit)
       /\ exitErr'.at # "watch"
       /\ exitErr'.err.kind \notin {"watcher", "watch"}]_vars

\* C7 witness: watch setup failed and the process is in the Bot retry loop
C7_Witness ==
    /\ watchErr # NoErr
    /\ proc = "running"
    /\ manager.started
    /\ pc = "sleep"

\* C8: each call of bot.Start but the one that ends the loop is followed by
\* one pause of 5 seconds, so the k-th call is preceded by k-1 pauses; a Bot
\* that fails retriably twice and then non-retriably is started three times
\* with two pauses, and run returns the third error.
C8_RetryLoopPauses ==
    /\ pc \in {"start", "bot"} => pauses = Len(botHist)
    /\ pc = "sleep" => pauses = Len(botHist) - 1
    /\ exitErr.at = "bot" => pauses = Len(botHist) - 1
    /\ slept = 5 * pauses
    /\ botHist = <<Retriable, Retriable, NonRetriable>>
          => /\ proc = "fatal"
             /\ pauses = 2
             /\ slept = 10
             /\ exitErr = Exit("bot", BotErr(3, NonRetriable))

\* C8 witness: the Bot failed retriably twice, then non-retriably
C8_Witness ==
    /\ botHist = <<Retriable, Retriable, NonRetriable>>
    /\ pc = "returned"

InBotLoop(p) == p \in {"start", "bot", "sleep"}

\* C9: the foreground sequence leaves the Bot loop only when bot.Start
\* returned a non-retriable error; after nil or a retriable error it pauses
\* and starts the Bot again; and a process in the loop ends only that way or
\* by the event loop's exit(0).
C9_LoopLeftOnlyOnNonRetriable ==
    [][/\ (InBotLoop(pc) /\ ~InBotLoop(pc'))
            => /\ pc = "bot"
               /\ botHist' = Append(botHist, NonRetriable)
               /\ proc' = "fatal"
               /\ exitErr' = Exit("bot", BotErr(Len(botHist'), NonRetriable))
       /\ (pc = "bot" /\ botHist' # botHist
              /\ botHist'[Len(botHist')] \in {ReturnedNil, Retriable})
            => (pc' = "sleep" /\ proc' = "running")
       /\ (pc = "sleep" /\ pc' # "sleep")
            => (pc' = "start" /\ pauses' = pauses + 1 /\ proc' = "running")
       /\ (pc = "start" /\ pc' # "start")
            => (pc' = "bot" /\ botHist' = botHist /\ proc' = "running")
       /\ (InBotLoop(pc) /\ proc = "running" /\ proc' # "running")
            => \/ proc' = "fatal" /\ exitErr'.at = "bot"
               \/ /\ proc' = "exit0"
                  /\ watcher.loop
                  /\ events # <<>> /\ Head(events).op # {"Chmod"}
                  /\ events' = Tail(events)]_vars

\* C9 witness: after a nil return and a retriable error the Bot was started a
\* third time, and the loop goes on
C9_Witness ==
    /\ Len(botHist) = 3
    /\ botHist[1] = ReturnedNil
    /\ botHist[2] = Retriable
    /\ pc = "sleep"
    /\ proc = "running"

\* the paths of the bundles whose file exists
ExistingBundlePaths ==
    {clusters.m[k].KubeconfigPath :
        k \in {x \in DOMAIN clusters.m :
                  fs[clusters.m[x].KubeconfigPath.name].kind # "absent"}}

\* C10: watch setup registers exactly the bundles whose file exists when it
\* runs, each on its own file path; a bundle whose file is missing is skipped
\* and is never the cause of an error, so setup succeeds unless the watcher
\* cannot be created or a registration of an existing file fails.
C10_WatchesExistingFilesOnly ==
    [][(pc = "watch" /\ pc' = "resolver") =>
          /\ watcher'.watched \subseteq ExistingBundlePaths
          /\ \A p \in watcher'.watched : p.dir = Location /\ p.name \in DirNames
          /\ watchErr' = NoErr
                => (watcher'.watched = ExistingBundlePaths /\ watcher'.loop)
          /\ watchErr' # NoErr
                => /\ ~watcher'.loop
                   /\ \/ watchErr'.kind = "watcher"
                      \/ /\ watchErr'.kind = "watch"
                         /\ PathJoin(Location, watchErr'.file)
                               \in ExistingBundlePaths]_vars

\* C10 witness: a.kubeconfig was removed after the scan and before watch
\* setup; setup succeeded and watches b.kubeconfig only
C10_Witness ==
    /\ pc = "resolver"
    /\ proc = "running"
    /\ DOMAIN clusters.m = {ClusterA, ClusterB}
    /\ fs[NameA] = Absent
    /\ watchErr = NoErr
    /\ watcher.loop
    /\ watcher.watched = {PathB}
    /\ events = <<>>
    /\ ignored = 0

----------------------------------------------------------------------------
(* Properties of the scan's result and of the later steps *)

\* the entries the scan reads: not a directory, name accepted by the matcher
ReadByScan == {n \in DOMAIN fs : fs[n].kind = "file" /\ FindStringSubmatch(n).matched}

BundlePaths == {clusters.m[k].KubeconfigPath : k \in DOMAIN clusters.m}

\* C11: an entry the matcher rejects and an entry that is a directory,
\* whatever its name, give no map entry and no error: when every file the
\* scan reads is valid the scan succeeds with one entry per name extracted,
\* none of them for a rejected entry or a directory; notes.txt beside a valid
\* a.kubeconfig gives the single entry a.
C11_OtherEntriesIgnored ==
    (AsScanned /\ dirOK) =>
        /\ (\A n \in ReadByScan : fs[n].class = "good")
              => /\ ~clusters.nil
                 /\ exitErr.at # "scan"
                 /\ DOMAIN clusters.m = {FindStringSubmatch(n).name : n \in ReadByScan}
        /\ \A n \in DOMAIN fs \ ReadByScan :
              PathJoin(Location, n) \notin BundlePaths
        /\ (fs[NameNotes].kind = "file" /\ fs[NameA] = File("good", Original)
              /\ fs[NameB].kind # "file")
              => DOMAIN clusters.m = {ClusterA}

\* C11 witness: a malformed notes.txt, a directory named b.kubeconfig and a
\* valid a.kubeconfig were scanned into the single entry a
C11_Witness ==
    /\ AsScanned
    /\ fs[NameNotes] = File("malformed", Original)
    /\ fs[NameB] = Directory
    /\ fs[NameA] = File("good", Original)
    /\ ~clusters.nil
    /\ DOMAIN clusters.m = {ClusterA}

\* C12: the scan of a listable directory with no entry to read returns the
\* empty map, not nil, and no error, and run goes on to watch setup and the
\* later steps.
C12_EmptyDirectoryEmptyMap ==
    (AsScanned /\ dirOK /\ ReadByScan = {}) =>
        /\ ~clusters.nil
        /\ DOMAIN clusters.m = {}
        /\ exitErr.at # "scan"
        /\ watchErr.kind # "watch"
        /\ pc = "resolver" => (watchErr = NoErr => watcher.loop)

\* C12 witness: the directory was empty and the process reached the Bot loop
\* with the event loop running on no watch
C12_Witness ==
    /\ \A n \in DOMAIN fs : fs[n] = Absent
    /\ dirOK
    /\ ~clusters.nil
    /\ DOMAIN clusters.m = {}
    /\ watcher.loop
    /\ watcher.watched = {}
    /\ pc = "sleep"

\* C15: every entry of a map the scan returned holds its path, its
\* connection config and all three clients, and no entry comes from a file
\* on which a step of the loop body fails.
C15_BundlesFullyPopulated ==
    /\ \A k \in DOMAIN clusters.m :
          LET b == clusters.m[k]
          IN  /\ b.KubeconfigPath.dir = Location
              /\ ~AsScanned \/ b.KubeconfigPath.name \in ReadByScan
              /\ b.CoreConfig = [from |-> b.KubeconfigPath.name, ver |-> Original]
              /\ b.CoreClient = "core"
              /\ b.ProjectClient = "project"
              /\ b.TargetImageClient = "target image"
              /\ fs[b.KubeconfigPath.name].kind = "file"
                    => Fails(fs[b.KubeconfigPath.name].class) = {}
    /\ (AsScanned /\ ~clusters.nil) => \A n \in DOMAIN fs : ~BadMatchedFile(n)

\* C15 witness: a map of two bundles
C15_Witness ==
    /\ AsScanned
    /\ DOMAIN clusters.m = {ClusterA, ClusterB}
    /\ clusters.m[ClusterA].KubeconfigPath = PathA
    /\ clusters.m[ClusterB].KubeconfigPath = PathB

\* C13: a failure of step 4 is fatal.  When loading the release-cluster
\* config failed, or the release image client cannot be built, the next step
\* of run returns an error, so that run never goes on to the config agent,
\* the Job Manager and the Bot after a failed load.
C13_ReleaseFailureFatal ==
    [][/\ (pc = "imageLoadErr" /\ pc' # pc)
            => (proc' = "fatal" /\ pc' = "returned" /\ exitErr'.at = "release")
       /\ (pc \in {"image", "imageLoadErr"} /\ pc' = "returned")
            => (proc' = "fatal" /\ exitErr'.at = "release")]_vars

\* C14: watches exist only once the scan has returned its map; the event
\* loop takes a pending event wherever the foreground sequence stands, and
\* while the loop runs the foreground sequence has its next step whether or
\* not events are pending (bot.Start alone may block).
C14_WatchLoopInBackground ==
    /\ watcher.created => (~clusters.nil /\ pc \notin {"scan", "watch"})
    /\ watcher.loop => watcher.created
    /\ (Running /\ watcher.loop /\ events # <<>>) => ENABLED WatchLoop
    /\ (Running /\ watcher.loop /\ pc \notin {"bot", "returned"})
          => ENABLED Foreground

\* C14 witness: an event ended the process during the pause of the retry loop
C14_Witness ==
    /\ proc = "exit0"
    /\ pc = "sleep"
    /\ manager.started

\* C16: distinct files read by the scan give distinct cluster names, so the
\* map has one entry per file read, and the path of the bundle of name k is
\* the directory joined with k followed by .kubeconfig.
C16_KeysMatchFiles ==
    (AsScanned /\ ~clusters.nil) =>
        /\ Cardinality(DOMAIN clusters.m) = Cardinality(ReadByScan)
        /\ \A k \in DOMAIN clusters.m :
              clusters.m[k].KubeconfigPath = PathJoin(Location, k \o DotKC)

\* C17: when watch setup returned an error the event loop does not run: no
\* event is ever taken, and no change of a file, registered or not, ends the
\* process.
C17_NoLoopAfterSetupError ==
    watchErr # NoErr =>
        /\ ~watcher.loop
        /\ proc # "exit0"
        /\ ignored = 0

\* C17 witness: setup failed after a.kubeconfig was registered; the file was
\* written, the event stays pending and the process is in the Bot loop
C17_Witness ==
    /\ watchErr.kind = "watch"
    /\ PathA \in watcher.watched
    /\ events # <<>>
    /\ events[1] = [path |-> PathA, op |-> {"Write"}]
    /\ proc = "running"
    /\ pc = "sleep"

\* C18: the scan runs once; after it returned, no step changes the cluster
\* map, and the Job Manager holds the map the scan returned.
C18_MapBuiltOnceNeverMutated ==
    [][/\ pc # "scan" => (clusters' = clusters /\ pc' # "scan")
       /\ manager'.built => manager'.clusters = clusters'
       /\ manager.built => manager'.clusters = manager.clusters]_vars

\* C18 witness: a.kubeconfig was rewritten after the scan; the map and the
\* Job Manager still hold the two bundles the scan built
C18_Witness ==
    /\ manager.built
    /\ manager.clusters = clusters
    /\ DOMAIN clusters.m = {ClusterA, ClusterB}
    /\ fs[NameA].ver = Rewritten
    /\ clusters.m[ClusterA].CoreConfig.ver = Original
    /\ proc = "running"
    /\ pc = "sleep"

\* C19: every error the scan returns for a file it read names that file, and
\* an error of a client construction names the client.
C19_ScanErrorsNameFile ==
    (exitErr.at = "scan"
        /\ exitErr.err.kind \in {"read", "parse", "resolve", "client"}) =>
        /\ exitErr.err.file \in ReadByScan
        /\ fs[exitErr.err.file].class # "good"
        /\ exitErr.err.kind = "client"
              => exitErr.err.client \in {"core", "project", "target image"}

====
